---- MODULE Spec2Model ----
(***************************************************************************)
(* Model of id-contact/comm-test: the key configuration (src/config.rs),   *)
(* the sign-then-encrypt envelope codec (src/jwe.rs) and the request       *)
(* handlers of the test communication plugin (src/main.rs).                *)
(*                                                                         *)
(* Cryptography is symbolic: a signature is a term naming the signing key  *)
(* and the signed content, a JWE is the five segments of the compact       *)
(* serialization, its authentication tag a term over the content           *)
(* encryption key, the header segment, the IV segment and the ciphertext   *)
(* segment (A128CBC-HS256).                                                *)
(***************************************************************************)
EXTENDS Integers, Sequences, FiniteSets, TLC

\* Number of attribute names a payload may use.
MaxAttrs == 2

AllAttrNames == <<"age", "name", "email", "city">>
AttrNames == {AllAttrNames[i] : i \in 1..MaxAttrs}
AttrValues == {"42", "A"}

\* HashMap<String, String>: every map from a subset of the names to values.
AttributeMaps == UNION {[S -> AttrValues] : S \in SUBSET AttrNames}

(***************************************************************************)
(* Option and Result                                                       *)
(***************************************************************************)
None == [some |-> FALSE]
Some(x) == [some |-> TRUE, v |-> x]

Ok(x) == [tag |-> "Ok", val |-> x]
Err(e) == [tag |-> "Err", err |-> e]
IsOk(r) == r.tag = "Ok"

(***************************************************************************)
(* jwe::Error: the three variants; From<JoseError> gives JWT,              *)
(* From<serde_json::Error> gives Json.                                     *)
(***************************************************************************)
ErrorJson == "Json"
ErrorJWT == "JWT"
ErrorInvalidStructure == "InvalidStructure"

(***************************************************************************)
(* Key pairs and PEM key material                                          *)
(***************************************************************************)
SignKeyPairs == {[id |-> "s1", family |-> "RSA"],
                 [id |-> "s2", family |-> "EC"],
                 [id |-> "s3", family |-> "RSA"]}
EncKeyPairs == {[id |-> "e1", family |-> "RSA"],
                [id |-> "e2", family |-> "EC"],
                [id |-> "e3", family |-> "RSA"]}

\* The algorithm each family is bound to.
SigAlg(family) == IF family = "RSA" THEN "RS256" ELSE "ES256"
EncAlg(family) == IF family = "RSA" THEN "RSA-OAEP" ELSE "ECDH-ES"

\* Capabilities the sealing peer holds (private signing key, public encryption key).
Signer(kp) == [alg |-> SigAlg(kp.family), key |-> kp.id]
Encrypter(kp) == [alg |-> EncAlg(kp.family), key |-> kp.id]
Signers == {Signer(kp) : kp \in SignKeyPairs}
Encrypters == {Encrypter(kp) : kp \in EncKeyPairs}

\* A PEM string: the key format it holds ("garbage": not a key at all).
Pem(fmt, part, id) == [fmt |-> fmt, part |-> part, id |-> id]
GarbagePem == Pem("garbage", "none", "none")
PrivPem(kp) == Pem(kp.family, "private", kp.id)
PubPem(kp) == Pem(kp.family, "public", kp.id)

(***************************************************************************)
(* JSON values (serde_json::Value)                                         *)
(***************************************************************************)
JStr(s) == [t |-> "str", s |-> s]
JNum(n) == [t |-> "num", n |-> n]
JObj(m) == [t |-> "obj", m |-> m]
\* A JSON string holding the compact serialization of the signed token j.
JTok(j) == [t |-> "str", s |-> "compact-jws", jws |-> j]

\* serde_json::to_value(&HashMap<String, String>)
to_value(attributes) == JObj([k \in DOMAIN attributes |-> JStr(attributes[k])])

\* serde_json::from_value::<HashMap<String, String>>
from_value(v) ==
    IF v.t = "obj" /\ \A k \in DOMAIN v.m : v.m[k].t = "str"
    THEN Ok([k \in DOMAIN v.m |-> v.m[k].s])
    ELSE Err(ErrorJson)

\* JwtPayload::claim(name)
claim(payload, name) == IF name \in DOMAIN payload THEN Some(payload[name]) ELSE None

\* Value::as_str()
as_str(v) == IF v.t = "str" THEN Some(v) ELSE None

(***************************************************************************)
(* Signed token (JWS)                                                      *)
(***************************************************************************)
Signature(key, header, payload) == [by |-> key, over |-> <<header, payload>>]

\* jwt::encode_with_signer: the header's alg is the signer's.
encode_with_signer(payload, header, signer) ==
    LET h == [alg |-> signer.alg, typ |-> header.typ]
    IN  [header |-> h, payload |-> payload, sig |-> Signature(signer.key, h, payload)]

\* decode_with_verifier that takes any signature under the verifier's algorithm.
decode_with_verifier_anykey(str, verifier) ==
    IF "jws" \notin DOMAIN str THEN Err(ErrorJWT)
    ELSE LET j == str.jws IN
         IF j.header.alg # verifier.alg THEN Err(ErrorJWT)
         ELSE Ok(<<j.payload, j.header>>)

\* jwt::decode_with_verifier: the string must be a compact JWS, its alg the
\* verifier's, its signature the verifier key's over header and payload.
decode_with_verifier(str, verifier) ==
    IF "jws" \notin DOMAIN str THEN Err(ErrorJWT)
    ELSE LET j == str.jws IN
         IF j.header.alg # verifier.alg THEN Err(ErrorJWT)
         ELSE IF j.sig # Signature(verifier.key, j.header, j.payload) THEN Err(ErrorJWT)
         ELSE Ok(<<j.payload, j.header>>)

(***************************************************************************)
(* Encrypted token (JWE), compact serialization in five segments           *)
(***************************************************************************)
Seg(v) == [v |-> v, flipped |-> FALSE]
SegNames == {"hdr", "ekey", "iv", "ct", "tag"}

\* HMAC of A128CBC-HS256: over the header segment (AAD), the IV and the ciphertext.
Mac(cek, hdr, iv, ct) == [cek |-> cek, aad |-> hdr, iv |-> iv, ct |-> ct]

\* ECDH-ES: the key both sides derive from the ephemeral key and the recipient's pair.
Derive(epk, key) == [eph |-> epk, peer |-> key]

\* jwt::encode_with_encrypter; rnd is the randomness the library draws.
encode_with_encrypter(payload, header, encrypter, rnd) ==
    LET rsa == encrypter.alg = "RSA-OAEP"
        cek == IF rsa THEN [rnd |-> rnd] ELSE Derive(rnd, encrypter.key)
        hdr == Seg([alg |-> encrypter.alg, enc |-> header.enc, typ |-> header.typ,
                    cty |-> header.cty, epk |-> IF rsa THEN "none" ELSE rnd])
        ekey == Seg(IF rsa THEN [wrap |-> cek, to |-> encrypter.key] ELSE <<>>)
        iv == Seg(rnd)
        ct == Seg([cek |-> cek, iv |-> rnd, pt |-> payload])
    IN  [nparts |-> 5, hdr |-> hdr, ekey |-> ekey, iv |-> iv, ct |-> ct,
         tag |-> Seg(Mac(cek, hdr, iv, ct))]

\* The content encryption key the decrypter recovers, if any.
UnwrapKey(jwe, decrypter) ==
    IF jwe.hdr.v.alg # decrypter.alg THEN None
    ELSE IF decrypter.alg = "RSA-OAEP"
         THEN IF jwe.ekey.flipped \/ jwe.ekey.v.to # decrypter.key THEN None
              ELSE Some(jwe.ekey.v.wrap)
         ELSE Some(Derive(jwe.hdr.v.epk, decrypter.key))

\* jwt::decode_with_decrypter without the tag comparison.
decode_unauthenticated(jwe, decrypter) ==
    IF jwe.nparts # 5 THEN Err(ErrorJWT)
    ELSE LET cek == UnwrapKey(jwe, decrypter) IN
         IF ~cek.some THEN Err(ErrorJWT)
         ELSE Ok(<<jwe.ct.v.pt, jwe.hdr.v>>)

\* jwt::decode_with_decrypter: five segments, a key the decrypter can recover,
\* and a tag that authenticates header, IV and ciphertext as received.
decode_with_decrypter(jwe, decrypter) ==
    IF jwe.nparts # 5 THEN Err(ErrorJWT)
    ELSE LET cek == UnwrapKey(jwe, decrypter) IN
         IF ~cek.some THEN Err(ErrorJWT)
         ELSE IF jwe.tag.flipped \/ jwe.tag.v # Mac(cek.v, jwe.hdr, jwe.iv, jwe.ct)
              THEN Err(ErrorJWT)
              ELSE Ok(<<jwe.ct.v.pt, jwe.hdr.v>>)

(***************************************************************************)
(* src/jwe.rs                                                              *)
(***************************************************************************)
\* sign_and_encrypt_attributes with the payload claim under another name.
sign_and_encrypt_attributes_misnamed(attributes, signer, encrypter, rnd) ==
    LET sig_payload == [sub |-> JStr("id-contact-attributes"),
                        attribute |-> to_value(attributes)]
        jws == encode_with_signer(sig_payload, [typ |-> "JWT"], signer)
        enc_header == [typ |-> "JWT", cty |-> Some("JWT"), enc |-> "A128CBC-HS256"]
    IN  Ok(encode_with_encrypter([njwt |-> JTok(jws)], enc_header, encrypter, rnd))

sign_and_encrypt_attributes(attributes, signer, encrypter, rnd) ==
    LET sig_header == [typ |-> "JWT"]
        sig_payload == [sub |-> JStr("id-contact-attributes"),
                        attributes |-> to_value(attributes)]
        jws == encode_with_signer(sig_payload, sig_header, signer)
        enc_header == [typ |-> "JWT", cty |-> Some("JWT"), enc |-> "A128CBC-HS256"]
        enc_payload == [njwt |-> JTok(jws)]
    IN  Ok(encode_with_encrypter(enc_payload, enc_header, encrypter, rnd))

\* The library calls a run of decrypt_and_verify_attributes makes, in order.
CallDecrypt == "decode_with_decrypter"
CallVerify == "decode_with_verifier"

Outcome(result, calls) == [result |-> result, calls |-> calls]

\* decrypt_and_verify_attributes that runs the verifier before it returns the
\* decryption error.
decrypt_and_verify_attributes_ungated(jwe, validator, decrypter) ==
    LET r1 == decode_with_decrypter(jwe, decrypter)
        r2 == IF IsOk(r1) /\ "njwt" \in DOMAIN r1.val[1]
              THEN decode_with_verifier(r1.val[1].njwt, validator)
              ELSE Err(ErrorJWT)
    IN  IF ~IsOk(r1) THEN Outcome(Err(r1.err), <<CallDecrypt, CallVerify>>)
        ELSE IF ~IsOk(r2) THEN Outcome(Err(r2.err), <<CallDecrypt, CallVerify>>)
        ELSE IF "attributes" \notin DOMAIN r2.val[1]
             THEN Outcome(Err(ErrorInvalidStructure), <<CallDecrypt, CallVerify>>)
             ELSE Outcome(from_value(r2.val[1].attributes), <<CallDecrypt, CallVerify>>)

\* decrypt_and_verify_attributes that takes a missing payload claim for an
\* empty map.
decrypt_and_verify_attributes_defaulting(jwe, validator, decrypter) ==
    LET r1 == decode_with_decrypter(jwe, decrypter) IN
    IF ~IsOk(r1) THEN Outcome(Err(r1.err), <<CallDecrypt>>)
    ELSE
    LET njwt == claim(r1.val[1], "njwt") IN
    IF ~njwt.some \/ ~as_str(njwt.v).some
    THEN Outcome(Err(ErrorInvalidStructure), <<CallDecrypt>>)
    ELSE
    LET r2 == decode_with_verifier(njwt.v, validator) IN
    IF ~IsOk(r2) THEN Outcome(Err(r2.err), <<CallDecrypt, CallVerify>>)
    ELSE
    LET raw_attributes == claim(r2.val[1], "attributes") IN
    IF ~raw_attributes.some THEN Outcome(Ok(<<>>), <<CallDecrypt, CallVerify>>)
    ELSE Outcome(from_value(raw_attributes.v), <<CallDecrypt, CallVerify>>)

decrypt_and_verify_attributes(jwe, validator, decrypter) ==
    LET r1 == decode_with_decrypter(jwe, decrypter) IN
    IF ~IsOk(r1) THEN Outcome(Err(r1.err), <<CallDecrypt>>)
    ELSE
    LET decoded_jwe == r1.val[1]
        njwt == claim(decoded_jwe, "njwt") IN
    IF ~njwt.some THEN Outcome(Err(ErrorInvalidStructure), <<CallDecrypt>>)
    ELSE
    LET jws == as_str(njwt.v) IN
    IF ~jws.some THEN Outcome(Err(ErrorInvalidStructure), <<CallDecrypt>>)
    ELSE
    LET r2 == decode_with_verifier(jws.v, validator) IN
    IF ~IsOk(r2) THEN Outcome(Err(r2.err), <<CallDecrypt, CallVerify>>)
    ELSE
    LET decoded_jws == r2.val[1]
        raw_attributes == claim(decoded_jws, "attributes") IN
    IF ~raw_attributes.some
    THEN Outcome(Err(ErrorInvalidStructure), <<CallDecrypt, CallVerify>>)
    ELSE Outcome(from_value(raw_attributes.v), <<CallDecrypt, CallVerify>>)

(***************************************************************************)
(* Envelopes a peer can send                                               *)
(***************************************************************************)
Nonces == {"r1", "r2"}

SubjectMarker == "id-contact-attributes"
ContentTypeMarker == "JWT"

\* Inner claim sets by the shape of the "attributes" claim.
AttrShapes == {"map", "absent", "text", "mixed"}
InnerClaims(subject, shape, attributes) ==
    LET sub == IF subject.some THEN [c \in {"sub"} |-> JStr(subject.v)] ELSE <<>>
        att == CASE shape = "map" -> [c \in {"attributes"} |-> to_value(attributes)]
                 [] shape = "absent" -> <<>>
                 [] shape = "text" -> [c \in {"attributes"} |-> JStr("not-a-map")]
                 [] shape = "mixed" ->
                      [c \in {"attributes"} |->
                          JObj([k \in DOMAIN attributes \cup {"age"} |->
                                   IF k = "age" THEN JNum(42) ELSE JStr(attributes[k])])]
    IN  [c \in DOMAIN sub \cup DOMAIN att |-> IF c \in DOMAIN sub THEN sub[c] ELSE att[c]]

\* Outer claim sets by the shape of the "njwt" claim.
NjwtShapes == {"token", "absent", "number", "text"}
OuterClaims(shape, jws) ==
    CASE shape = "token" -> [c \in {"njwt"} |-> JTok(jws)]
      [] shape = "absent" -> <<>>
      [] shape = "number" -> [c \in {"njwt"} |-> JNum(1)]
      [] shape = "text" -> [c \in {"njwt"} |-> JStr("not-a-token")]

\* A two-layer token built with the library by any holder of a signing key and
\* the recipient's public key, with markers and claims of its choosing.
ForgeEnvelope(subject, cty, njwt, shape, attributes, signer, encrypter, rnd) ==
    LET jws == encode_with_signer(InnerClaims(subject, shape, attributes),
                                  [typ |-> "JWT"], signer)
        enc_header == [typ |-> "JWT", cty |-> cty, enc |-> "A128CBC-HS256"]
    IN  encode_with_encrypter(OuterClaims(njwt, jws), enc_header, encrypter, rnd)

\* One byte of the serialized envelope altered: inside a segment, a separator
\* overwritten, or a byte overwritten by a separator.
TamperTargets(jwe) ==
    (SegNames \ (IF jwe.hdr.v.alg = "ECDH-ES" THEN {"ekey"} ELSE {}))
        \cup {"dot-", "dot+"}
Tamper(jwe, target) ==
    CASE target = "dot-" -> [jwe EXCEPT !.nparts = 4]
      [] target = "dot+" -> [jwe EXCEPT !.nparts = 6]
      [] OTHER -> [jwe EXCEPT ![target].flipped = TRUE]

Markers(m) == {None, Some(m), Some("other")}
ForgedPayloads ==
    {P \in AttributeMaps : Cardinality(DOMAIN P) <= 1 /\ \A k \in DOMAIN P : P[k] = "A"}
\* The choices of a forging peer.
Forgeries ==
    {g \in [sub : Markers(SubjectMarker), cty : Markers(ContentTypeMarker),
            njwt : NjwtShapes, shape : AttrShapes, attributes : ForgedPayloads,
            signer : Signers, encrypter : Encrypters] :
        /\ g.njwt # "token" => (g.shape = "map" /\ g.attributes = <<>>)
        /\ g.shape \in {"absent", "text"} => g.attributes = <<>>}

(***************************************************************************)
(* src/config.rs                                                           *)
(***************************************************************************)
\* josekit's <alg>.decrypter_from_pem: the PEM must hold a private key of the
\* algorithm's family.
decrypter_from_pem(alg, pem) ==
    IF pem.part = "private" /\ EncAlg(pem.fmt) = alg /\ pem.fmt \in {"RSA", "EC"}
    THEN Ok([alg |-> alg, key |-> pem.id])
    ELSE Err(ErrorJWT)

\* josekit's <alg>.verifier_from_pem: the PEM must hold a public key of the
\* algorithm's family.
verifier_from_pem(alg, pem) ==
    IF pem.part = "public" /\ SigAlg(pem.fmt) = alg /\ pem.fmt \in {"RSA", "EC"}
    THEN Ok([alg |-> alg, key |-> pem.id])
    ELSE Err(ErrorJWT)

\* to_decrypter that keeps the PEM for later instead of parsing it.
to_decrypter_lazy(decl) ==
    [tag |-> "Ok",
     val |-> [alg |-> IF decl.type = "RSA" THEN "RSA-OAEP" ELSE "ECDH-ES",
              key |-> decl.key.id]]

\* EncryptionKeyConfig::to_decrypter
to_decrypter(decl) ==
    IF decl.type = "RSA" THEN decrypter_from_pem("RSA-OAEP", decl.key)
    ELSE decrypter_from_pem("ECDH-ES", decl.key)

\* SignKeyConfig::to_verifier
to_verifier(decl) ==
    IF decl.type = "RSA" THEN verifier_from_pem("RS256", decl.key)
    ELSE verifier_from_pem("ES256", decl.key)

\* #[derive(Deserialize)] for RawConfig: every field present, every key
\* declaration tagged with a variant of its enum.
KeyFamilies == {"RSA", "EC"}
deserialize_RawConfig(doc) ==
    IF /\ doc.decryption_privkey.some
       /\ doc.signature_pubkey.some
       /\ doc.decryption_privkey.v.type \in KeyFamilies
       /\ doc.signature_pubkey.v.type \in KeyFamilies
    THEN Ok([server_url |-> doc.server_url,
             internal_url |-> doc.internal_url,
             use_attr_url |-> doc.use_attr_url,
             decryption_privkey |-> doc.decryption_privkey.v,
             signature_pubkey |-> doc.signature_pubkey.v])
    ELSE Err("YamlError")

\* impl TryFrom<RawConfig> for Config
try_from(config) ==
    LET d == to_decrypter(config.decryption_privkey) IN
    IF ~IsOk(d) THEN Err(d.err)
    ELSE LET v == to_verifier(config.signature_pubkey) IN
         IF ~IsOk(v) THEN Err(v.err)
         ELSE Ok([server_url |-> config.server_url,
                  internal_url |-> config.internal_url,
                  use_attr_url |-> config.use_attr_url,
                  decrypter |-> d.val,
                  validator |-> v.val])

\* Config::from_string / Config::from_reader: serde_yaml deserializes the
\* RawConfig and, by #[serde(try_from)], converts it; every failure comes back
\* as the serde_yaml error.
from_string(doc) ==
    LET raw == deserialize_RawConfig(doc) IN
    IF ~IsOk(raw) THEN Err("YamlError")
    ELSE LET c == try_from(raw.val) IN
         IF ~IsOk(c) THEN Err("YamlError") ELSE c

from_reader(doc) ==
    LET raw == deserialize_RawConfig(doc) IN
    IF ~IsOk(raw) THEN Err("YamlError")
    ELSE LET c == try_from(raw.val) IN
         IF ~IsOk(c) THEN Err("YamlError") ELSE c

\* Configuration documents the process may be started with.
DecPems == {PrivPem(kp) : kp \in {k \in EncKeyPairs : k.id \in {"e1", "e2"}}}
              \cup {PubPem(CHOOSE k \in EncKeyPairs : k.id = "e1"), GarbagePem}
SigPems == {PubPem(kp) : kp \in {k \in SignKeyPairs : k.id \in {"s1", "s2"}}}
              \cup {PrivPem(CHOOSE k \in SignKeyPairs : k.id = "s1"), GarbagePem}
KeyTags == {"RSA", "EC", "DSA"}
Declarations(pems) == {None} \cup {Some([type |-> t, key |-> k]) : t \in KeyTags, k \in pems}
ConfigDocs ==
    [server_url : {"https://comm.example"}, internal_url : {"http://comm.internal"},
     use_attr_url : BOOLEAN,
     decryption_privkey : Declarations(DecPems),
     signature_pubkey : Declarations(SigPems)]

\* What the CONFIG environment variable leads to.
ConfigFiles == {"unset", "unreadable"} \cup {"readable"}

(***************************************************************************)
(* src/main.rs                                                             *)
(***************************************************************************)
VARIABLES phase,      \* "boot", "serving" or "panicked"
          doc,        \* the configuration document the launch read, if any
          config,     \* the managed Config, once serving
          wire,       \* the envelope a peer has put in flight, if any
          origin,     \* how the peer made it
          request,    \* the request being answered
          response,   \* its response
          log,        \* the lines the handler printed
          opened,     \* the handler's result of decrypt_and_verify_attributes, if called
          calls       \* the library calls that run made, in order

vars == <<phase, doc, config, wire, origin, request, response, log, opened, calls>>

NoRequest == [handler |-> "none"]
NoOrigin == [kind |-> "none"]

Init ==
    /\ phase = "boot"
    /\ doc = None
    /\ config = None
    /\ wire = None
    /\ origin = NoOrigin
    /\ request = NoRequest
    /\ response = None
    /\ log = <<>>
    /\ opened = None
    /\ calls = <<>>

\* fn rocket(): the expects panic before the routes serve anything.
rocket(file, d) ==
    /\ phase = "boot"
    /\ IF file # "readable"
       THEN /\ phase' = "panicked"
            /\ UNCHANGED <<doc, config>>
       ELSE LET c == from_reader(d) IN
            /\ doc' = Some(d)
            /\ IF IsOk(c)
               THEN phase' = "serving" /\ config' = Some(c.val)
               ELSE phase' = "panicked" /\ config' = None
    /\ UNCHANGED <<wire, origin, request, response, log, opened, calls>>

\* A peer seals a payload for transport.
Seal(attributes, signer, encrypter, rnd) ==
    /\ phase = "serving" /\ request = NoRequest /\ wire = None
    /\ LET sealed == sign_and_encrypt_attributes(attributes, signer, encrypter, rnd) IN
       /\ IsOk(sealed)
       /\ wire' = Some(sealed.val)
    /\ origin' = [kind |-> "sealed", attributes |-> attributes, signer |-> signer,
                  encrypter |-> encrypter, tampered |-> "no"]
    /\ UNCHANGED <<phase, doc, config, request, response, log, opened, calls>>

\* The untrusted intermediary alters one byte of the sealed envelope.
TamperWire(target) ==
    /\ request = NoRequest /\ wire.some
    /\ origin.kind = "sealed" /\ origin.tampered = "no"
    /\ target \in TamperTargets(wire.v)
    /\ wire' = Some(Tamper(wire.v, target))
    /\ origin' = [origin EXCEPT !.tampered = target]
    /\ UNCHANGED <<phase, doc, config, request, response, log, opened, calls>>

\* A peer builds a token of its own choosing with the same library.
Forge(g) ==
    /\ phase = "serving" /\ request = NoRequest /\ wire = None
    /\ wire' = Some(ForgeEnvelope(g.sub, g.cty, g.njwt, g.shape, g.attributes,
                                  g.signer, g.encrypter, "r1"))
    /\ origin' = [kind |-> "forged", sub |-> g.sub, cty |-> g.cty, njwt |-> g.njwt,
                  shape |-> g.shape, attributes |-> g.attributes, signer |-> g.signer,
                  encrypter |-> g.encrypter, tampered |-> "no"]
    /\ UNCHANGED <<phase, doc, config, request, response, log, opened, calls>>

Line(text) == [text |-> text, shows |-> "nothing"]
LineOf(text, shows, value) == [text |-> text, shows |-> shows, value |-> value]

\* fn ui()
ui_page == "Communication plugin UI"

\* main::Error::JWT(jwe::Error), by From<jwe::Error>
MainErrorJWT(e) == [kind |-> "JWT", source |-> e]

\* The three handlers open the envelope the same way: if let Some(..) { ..? ; println! }
OpenAttributes(attributes, cfg) ==
    IF ~attributes.some THEN [opened |-> None, calls |-> <<>>, lines |-> <<>>]
    ELSE LET o == decrypt_and_verify_attributes(attributes.v, cfg.validator, cfg.decrypter)
         IN  [opened |-> Some(o.result), calls |-> o.calls,
              lines |-> IF IsOk(o.result)
                        THEN <<LineOf("Decoded attributes: ", "attributes", o.result.val)>>
                        ELSE <<>>]
Failed(o) == o.opened.some /\ ~IsOk(o.opened.v)

\* #[get("/ui")]
Ui ==
    /\ phase = "serving" /\ request = NoRequest /\ wire = None
    /\ request' = [handler |-> "ui"]
    /\ response' = Some(Ok(ui_page))
    /\ log' = <<>>
    /\ opened' = None
    /\ calls' = <<>>
    /\ UNCHANGED <<phase, doc, config, wire, origin>>

ui_withparams_response(o) ==
    IF Failed(o) THEN Err(MainErrorJWT(o.opened.v.err)) ELSE Ok(ui_page)

\* #[get("/ui?<status>&<attributes>&<session_url>")]
ui_withparams(status, attributes, session_url) ==
    /\ phase = "serving" /\ request = NoRequest
    /\ LET o == OpenAttributes(attributes, config.v) IN
       /\ request' = [handler |-> "ui_withparams", status |-> status,
                      attributes |-> attributes, session_url |-> session_url]
       /\ log' = <<Line("Received inline authentication results"),
                   LineOf("status: ", "status", status),
                   LineOf("attributes: ", "envelope", attributes),
                   LineOf("session_url: ", "session_url", session_url)>> \o o.lines
       /\ opened' = o.opened
       /\ calls' = o.calls
       /\ response' = Some(ui_withparams_response(o))
    /\ UNCHANGED <<phase, doc, config, wire, origin>>

attr_url_response(o) ==
    IF Failed(o) THEN Err(MainErrorJWT(o.opened.v.err)) ELSE Ok("()")

\* #[post("/auth_result")]
attr_url(auth_result) ==
    /\ phase = "serving" /\ request = NoRequest
    /\ LET o == OpenAttributes(auth_result.attributes, config.v) IN
       /\ request' = [handler |-> "attr_url", auth_result |-> auth_result]
       /\ log' = <<LineOf("Received authentication result ", "auth_result", auth_result)>>
                    \o o.lines
       /\ opened' = o.opened
       /\ calls' = o.calls
       /\ response' = Some(attr_url_response(o))
    /\ UNCHANGED <<phase, doc, config, wire, origin>>

\* start that goes on when the envelope could not be opened.
start_response_lenient(req, o, cfg) ==
    IF cfg.use_attr_url /\ ~req.attributes.some
    THEN Ok([client_url |-> <<cfg.server_url, "/ui">>,
             attr_url |-> Some(<<cfg.internal_url, "/auth_result">>)])
    ELSE Ok([client_url |-> <<cfg.server_url, "/ui">>, attr_url |-> None])

start_response(req, o, cfg) ==
    IF Failed(o) THEN Err(MainErrorJWT(o.opened.v.err))
    ELSE IF cfg.use_attr_url /\ ~req.attributes.some
         THEN Ok([client_url |-> <<cfg.server_url, "/ui">>,
                  attr_url |-> Some(<<cfg.internal_url, "/auth_result">>)])
         ELSE Ok([client_url |-> <<cfg.server_url, "/ui">>, attr_url |-> None])

\* #[post("/start_communication")]
start(req) ==
    /\ phase = "serving" /\ request = NoRequest
    /\ LET o == OpenAttributes(req.attributes, config.v) IN
       /\ request' = [handler |-> "start", request |-> req]
       /\ log' = <<LineOf("Received communication request ", "request", req)>> \o o.lines
       /\ opened' = o.opened
       /\ calls' = o.calls
       /\ response' = Some(start_response(req, o, config.v))
    /\ UNCHANGED <<phase, doc, config, wire, origin>>

\* The response is sent; the stateless server awaits the next request.
Deliver ==
    /\ phase = "serving" /\ request # NoRequest
    /\ wire' = None
    /\ origin' = NoOrigin
    /\ request' = NoRequest
    /\ response' = None
    /\ log' = <<>>
    /\ opened' = None
    /\ calls' = <<>>
    /\ UNCHANGED <<phase, doc, config>>

\* Request inputs: a request carries the envelope in flight, if there is one.
Inbound == {wire}
Statuses == {"succes", "failed"}
SessionUrls == {None, Some("https://auth.example/session")}

Next ==
    \/ \E file \in ConfigFiles, d \in ConfigDocs : rocket(file, d)
    \/ \E P \in AttributeMaps, s \in Signers, e \in Encrypters, r \in Nonces :
          Seal(P, s, e, r)
    \/ \E t \in SegNames \cup {"dot-", "dot+"} : TamperWire(t)
    \/ \E g \in Forgeries : Forge(g)
    \/ Ui
    \/ \E st \in Statuses, a \in Inbound : ui_withparams(st, a, None)
    \/ \E a \in Inbound, su \in SessionUrls :
          attr_url([status |-> "succes", attributes |-> a, session_url |-> su])
    \/ \E a \in Inbound : start([purpose |-> "test", attributes |-> a])
    \/ Deliver

Spec == Init /\ [][Next]_vars

(***************************************************************************)
(* Properties                                                              *)
(***************************************************************************)
\* A handler has answered a request that carried an envelope.
Handled == request.handler \in {"ui_withparams", "attr_url", "start"} /\ wire.some

\* The configured capability is the counterpart of the key the peer used.
VerifierMatches == config.v.validator = origin.signer
DecrypterMatches == config.v.decrypter = origin.encrypter

SealedIntact == origin.kind = "sealed" /\ origin.tampered = "no"

\* C1 (round trip): an envelope sealed by sign_and_encrypt_attributes for any
\* attribute map, the empty one included, and any signing and encryption family,
\* opened with the counterpart verifier and decrypter, gives back that map.
C1_RoundTrip ==
    (Handled /\ SealedIntact /\ VerifierMatches /\ DecrypterMatches)
        => opened = Some(Ok(origin.attributes))

\* The empty map, signed with RSA and encrypted with EC, came back.
C1_Witness ==
    /\ Handled /\ SealedIntact /\ VerifierMatches /\ DecrypterMatches
    /\ origin.attributes = <<>>
    /\ origin.signer.alg = "RS256" /\ origin.encrypter.alg = "ECDH-ES"
    /\ opened = Some(Ok(<<>>))

\* C2 (confidentiality gate): when the decrypter is not the counterpart of the
\* key the envelope was encrypted for, or the envelope was altered, the call
\* fails with the decryption error and the verifier is never invoked; whenever
\* the verifier is invoked, decryption came first and succeeded.
C2_ConfidentialityGate ==
    /\ (Handled /\ (~DecrypterMatches \/ origin.tampered # "no"))
          => (opened = Some(Err(ErrorJWT)) /\ calls = <<CallDecrypt>>)
    /\ \A i \in DOMAIN calls :
          calls[i] = CallVerify
              => /\ i > 1 /\ calls[1] = CallDecrypt
                 /\ IsOk(decode_with_decrypter(wire.v, config.v.decrypter))

\* A correctly signed envelope for another recipient was refused at decryption.
C2_Witness ==
    /\ Handled /\ SealedIntact /\ VerifierMatches /\ ~DecrypterMatches
    /\ origin.encrypter.alg = config.v.decrypter.alg
    /\ opened = Some(Err(ErrorJWT)) /\ calls = <<CallDecrypt>>

\* The case of C3: a sealed envelope, the right decrypter, a verifier that is
\* not the signer's counterpart.
WrongVerifierCase == Handled /\ SealedIntact /\ DecrypterMatches /\ ~VerifierMatches

\* The errors decrypt_and_verify_attributes gives for this envelope when the
\* decrypter cannot decrypt it.
DecryptionFailures ==
    {decrypt_and_verify_attributes(wire.v, config.v.validator, d).result.err :
        d \in {Encrypter(kp) : kp \in {k \in EncKeyPairs : Encrypter(k) # origin.encrypter}}}

ForgedAuthentic ==
    /\ Handled /\ origin.kind = "forged"
    /\ DecrypterMatches /\ VerifierMatches

\* C4 (marker check): an envelope that decrypts and verifies, well-formed but
\* for a subject or content-type marker that is missing or different, fails
\* with InvalidStructure.
C4_MarkerCheck ==
    (/\ ForgedAuthentic /\ origin.njwt = "token" /\ origin.shape = "map"
     /\ \/ origin.sub # Some(SubjectMarker)
        \/ origin.cty # Some(ContentTypeMarker))
        => opened = Some(Err(ErrorInvalidStructure))

\* C5 (structural rejection): njwt absent or not a string, attributes absent or
\* not a map of strings to strings: each fails with InvalidStructure.
C5_StructuralRejection ==
    (/\ ForgedAuthentic
     /\ \/ origin.njwt \in {"absent", "number"}
        \/ origin.njwt = "token" /\ origin.shape \in {"absent", "text", "mixed"})
        => opened = Some(Err(ErrorInvalidStructure))

\* C6 (fail closed): a payload is returned only after decryption, extraction
\* of the inner token, verification and extraction of the payload claim all
\* succeeded, and then it is the map the holder of the matching signing key
\* put in; a failing run returns an error and no map.
C6_FailClosed ==
    opened.some =>
        /\ IsOk(opened.v)
              => /\ calls = <<CallDecrypt, CallVerify>>
                 /\ origin.tampered = "no"
                 /\ DecrypterMatches /\ VerifierMatches
                 /\ origin.kind = "forged" => (origin.njwt = "token" /\ origin.shape = "map")
                 /\ opened.v.val = origin.attributes
        /\ ~IsOk(opened.v)
              => /\ "val" \notin DOMAIN opened.v
                 /\ \A i \in DOMAIN log : log[i].shows # "attributes"

\* An empty map came back from an envelope the matching signer sealed empty.
C6_Witness ==
    /\ Handled /\ opened = Some(Ok(<<>>))
    /\ origin.attributes = <<>> /\ VerifierMatches

\* A key declaration that resolves: present, tagged RSA or EC, and holding a
\* key of that family of the wanted part.
Resolvable(decl, part) ==
    /\ decl.some
    /\ decl.v.type \in {"RSA", "EC"}
    /\ decl.v.key.fmt = decl.v.type
    /\ decl.v.key.part = part

\* C7 (fail-fast key resolution): the server serves only with both key
\* declarations resolved into capabilities; a missing, wrongly tagged or
\* malformed declaration leaves no Config and no request is ever answered.
C7_FailFast ==
    /\ phase = "serving"
          => /\ doc.some /\ config.some
             /\ Resolvable(doc.v.decryption_privkey, "private")
             /\ Resolvable(doc.v.signature_pubkey, "public")
             /\ config.v.decrypter = [alg |-> EncAlg(doc.v.decryption_privkey.v.type),
                                      key |-> doc.v.decryption_privkey.v.key.id]
             /\ config.v.validator = [alg |-> SigAlg(doc.v.signature_pubkey.v.type),
                                      key |-> doc.v.signature_pubkey.v.key.id]
    /\ phase # "serving" => (config = None /\ request = NoRequest /\ response = None)
    /\ (doc.some /\ ~(/\ Resolvable(doc.v.decryption_privkey, "private")
                      /\ Resolvable(doc.v.signature_pubkey, "public")))
          => /\ phase = "panicked"
             /\ ~IsOk(from_string(doc.v)) /\ ~IsOk(from_reader(doc.v))

\* An RSA declaration holding an EC key stopped the launch.
C7_Witness ==
    /\ phase = "panicked" /\ doc.some
    /\ doc.v.decryption_privkey.some
    /\ doc.v.decryption_privkey.v.type = "RSA"
    /\ doc.v.decryption_privkey.v.key.fmt = "EC"
    /\ doc.v.decryption_privkey.v.key.part = "private"
    /\ Resolvable(doc.v.signature_pubkey, "public")

\* A printed line that shows the received envelope in full.
ShowsEnvelope(line) ==
    \/ line.shows = "envelope" /\ line.value.some
    \/ line.shows \in {"auth_result", "request"} /\ line.value.attributes.some
\* A printed line that shows decrypted attributes.
ShowsAttributes(line) == line.shows = "attributes"

\* C8 (no sensitive logging): no line a handler prints shows the received
\* envelope in full or the decrypted attributes.
C8_NoSensitiveLogging ==
    \A i \in DOMAIN log : ~ShowsEnvelope(log[i]) /\ ~ShowsAttributes(log[i])

\* C9 (tamper detection): a sealed envelope with one byte altered, opened with
\* the matching verifier and decrypter, fails with the library's error and
\* never yields a payload.
C9_TamperDetection ==
    (/\ Handled /\ origin.kind = "sealed" /\ origin.tampered # "no"
     /\ VerifierMatches /\ DecrypterMatches)
        => /\ opened = Some(Err(ErrorJWT))
           /\ ~IsOk(response.v)

\* An altered ciphertext segment, under the right keys, was refused.
C9_Witness ==
    /\ Handled /\ origin.kind = "sealed" /\ origin.tampered = "ct"
    /\ VerifierMatches /\ DecrypterMatches
    /\ opened = Some(Err(ErrorJWT))

\* C10 (request rejection): a handler whose decrypt_and_verify_attributes
\* failed returns an error; a success result is produced only when the request
\* carried no envelope or the envelope was opened.
C10_RequestRejection ==
    response.some =>
        /\ (opened.some /\ ~IsOk(opened.v))
              => response.v = Err(MainErrorJWT(opened.v.err))
        /\ IsOk(response.v) => (~wire.some \/ (opened.some /\ IsOk(opened.v)))
        /\ (wire.some /\ request.handler # "ui") => opened.some

\* start refused a request whose envelope has no embedded token.
C10_Witness ==
    /\ request.handler = "start" /\ wire.some
    /\ opened = Some(Err(ErrorInvalidStructure))
    /\ response = Some(Err(MainErrorJWT(ErrorInvalidStructure)))

====
